---- MODULE Spec2Model ----
(***************************************************************************)
(* Model of oterm's Store (src/src/oterm/store/store.py): the singleton     *)
(* open (get_store) with its bootstrap and upgrade paths, the header        *)
(* version codec, and the chat/message CRUD operations.                     *)
(*                                                                          *)
(* get_store is a coroutine: it is split into one action per stretch of     *)
(* code between two await points, so that several calls can interleave the  *)
(* way asyncio tasks do.  Each call c builds its own Store() object, which   *)
(* the model names by the call's number.                                    *)
(***************************************************************************)
EXTENDS Integers, Sequences, FiniteSets, TLC

\* ---------------------------------------------------------------- bounds
NumCalls == 2
MaxMinor == 3
MaxChatId == 2
MaxMessageId == 1
CodecSpread == 2

Calls == 1..NumCalls
None == 0

\* ------------------------------------------------------- version handling
\* A version "major.minor.patch" is the triple <<major, minor, patch>>.
AppVersions == {<<1, m, 0>> : m \in 0..MaxMinor}

\* packaging.version.parse(a) > parse(b) on release triples
VerGT(a, b) ==
    \/ a[1] > b[1]
    \/ a[1] = b[1] /\ a[2] > b[2]
    \/ a[1] = b[1] /\ a[2] = b[2] /\ a[3] > b[3]

VerGE(a, b) == a = b \/ VerGT(a, b)

\* oterm.utils codec (one decimal digit group of width 3 per component)
Base == 1000

\* an encoding whose minor and patch groups overlap
semantic_version_to_int_Narrow(v) == v[1] * Base * Base + v[2] * 100 + v[3]

semantic_version_to_int(v) == v[1] * Base * Base + v[2] * Base + v[3]

\* a decoding that does not strip the major group from the minor one
int_to_semantic_version_NoMod(n) ==
    <<n \div (Base * Base), n \div Base, n % Base>>

int_to_semantic_version(n) ==
    <<n \div (Base * Base), (n \div Base) % Base, n % Base>>

\* oterm.store.upgrades: the registry, in declaration order.  steps is the
\* number of upgrade actions of the entry; an action is named <<entry, step>>.
upgrades ==
    << [version |-> <<1, 1, 0>>, steps |-> 2],
       [version |-> <<1, 3, 0>>, steps |-> 1] >>

NumUpgrades == Len(upgrades)

\* ------------------------------------------------------------------ state
VARIABLES
    current,       \* metadata.version("oterm") of the running process
    cls_store,     \* Store._store: None or the cached Store object
    pc,            \* position of each get_store call
    path,          \* branch taken at line 24 / 31: cached, bootstrap, upgrade
    db_version,    \* local db_version of each call (line 62)
    ei, si,        \* loop position: entry index and step index (lines 63-68)
    log,           \* upgrade actions each call has awaited to completion
    ret,           \* Store object each call returned
    hdr0,          \* header value when each call began
    db_exists,     \* self.db_path.exists()
    has_schema,    \* chat and message tables created
    user_version,  \* PRAGMA user_version
    chat,          \* rows of table chat
    message,       \* rows of table message
    chat_seq,      \* sqlite_sequence of chat: largest id ever assigned
    message_seq,   \* sqlite_sequence of message
    foreign_keys,  \* PRAGMA foreign_keys of the connections (never set here)
    res,           \* outcome of the last CRUD call
    completed,     \* entries whose actions all ran in an open that succeeded
    lastFail,      \* the most recent failed open, until the next open begins
    prevFail,      \* for each call: the failed open it directly follows
    firstDone      \* first call of this process to cache its Store object

procvars == <<current, cls_store, pc, path, db_version, ei, si, log, ret,
              hdr0, prevFail, firstDone>>
dbvars == <<db_exists, has_schema, user_version, chat, message>>
crudvars == <<chat_seq, message_seq, foreign_keys, res>>
vars == <<procvars, dbvars, crudvars, completed, lastFail>>

\* ------------------------------------------------------------------- JSON
\* Python values: [t |-> "int" | "str" | "list" | "tuple" | "dict", ...].
\* A list or tuple holds a sequence of values, a dict a sequence of
\* <<key, value>> pairs in insertion order.  JSON text is a sequence of tokens.
PyInt(n) == [t |-> "int", n |-> n, s |-> "", v |-> <<>>]
PyStr(x) == [t |-> "str", n |-> 0, s |-> x, v |-> <<>>]
PyList(xs) == [t |-> "list", n |-> 0, s |-> "", v |-> xs]
PyTuple(xs) == [t |-> "tuple", n |-> 0, s |-> "", v |-> xs]
PyDict(kvs) == [t |-> "dict", n |-> 0, s |-> "", v |-> kvs]

Tok(k) == [k |-> k, n |-> 0, s |-> ""]
TokInt(n) == [k |-> "int", n |-> n, s |-> ""]
TokStr(x) == [k |-> "str", n |-> 0, s |-> x]

\* json.dumps: lists and tuples both become arrays, dict keys become strings
RECURSIVE json_dumps(_)
RECURSIVE DumpItems(_, _)
json_dumps(x) ==
    CASE x.t = "int" -> <<TokInt(x.n)>>
      [] x.t = "str" -> <<TokStr(x.s)>>
      [] x.t \in {"list", "tuple"} ->
             <<Tok("[")>> \o DumpItems(x.v, FALSE) \o <<Tok("]")>>
      [] x.t = "dict" ->
             <<Tok("{")>> \o DumpItems(x.v, TRUE) \o <<Tok("}")>>

DumpItems(xs, keyed) ==
    IF xs = <<>> THEN <<>>
    ELSE (IF keyed
          THEN <<TokStr(Head(xs)[1]), Tok(":")>> \o json_dumps(Head(xs)[2])
          ELSE json_dumps(Head(xs)))
         \o (IF Len(xs) > 1 THEN <<Tok(",")>> ELSE <<>>)
         \o DumpItems(Tail(xs), keyed)

\* json.loads: arrays become lists, objects become dicts.  ParseValue reads
\* the value that starts at token i and tells where the next token is.
RECURSIVE ParseValue(_, _)
RECURSIVE ParseItems(_, _, _, _)
ParseValue(toks, i) ==
    CASE toks[i].k = "int" -> [val |-> PyInt(toks[i].n), next |-> i + 1]
      [] toks[i].k = "str" -> [val |-> PyStr(toks[i].s), next |-> i + 1]
      [] toks[i].k = "[" ->
             LET r == ParseItems(toks, i + 1, FALSE, <<>>)
             IN  [val |-> PyList(r.items), next |-> r.next]
      [] toks[i].k = "{" ->
             LET r == ParseItems(toks, i + 1, TRUE, <<>>)
             IN  [val |-> PyDict(r.items), next |-> r.next]

ParseItems(toks, i, keyed, acc) ==
    IF toks[i].k \in {"]", "}"} THEN [items |-> acc, next |-> i + 1]
    ELSE IF toks[i].k = "," THEN ParseItems(toks, i + 1, keyed, acc)
    ELSE IF keyed
    THEN LET e == ParseValue(toks, i + 2)
         IN  ParseItems(toks, e.next, keyed,
                        Append(acc, <<toks[i].s, e.val>>))
    ELSE LET e == ParseValue(toks, i)
         IN  ParseItems(toks, e.next, keyed, Append(acc, e.val))

json_loads(toks) == ParseValue(toks, 1).val

\* arguments the callers pass to save_chat / edit_chat
ChatArgs ==
    { [name |-> "a", model |-> "m1", system |-> "s1", format |-> "",
       parameters |-> PyDict(<<>>), keep_alive |-> 5, tools |-> PyList(<<>>)],
      [name |-> "b", model |-> "m2", system |-> "s2", format |-> "json",
       parameters |-> PyDict(<< <<"temperature", PyInt(7)>> >>),
       keep_alive |-> 9,
       tools |-> PyList(<<PyDict(<< <<"name", PyStr("date")>> >>)>>)] }

\* arguments the callers pass to save_message
MessageArgs == { [author |-> "user", text |-> "hi"] }

ChatIds == 1..MaxChatId
MessageIds == 1..MaxMessageId

\* rows an existing database may already hold when a process starts
SampleChat == [id |-> 1, name |-> "a", model |-> "m1", system |-> "s1",
               format |-> "", parameters |-> json_dumps(PyDict(<<>>)),
               keep_alive |-> 5, tools |-> json_dumps(PyList(<<>>))]
SampleMessage == [id |-> 1, chat_id |-> 1, author |-> "user", text |-> "hi"]

\* res: the last call made on the Store object, the id and error it
\* returned, the argument it was given (arg) and the value it fetched (val)
NoRes == [op |-> "none", id |-> 0, err |-> FALSE, arg |-> {}, val |-> {}]

NoFail == [cur |-> <<0, 0, 0>>, dbv |-> <<0, 0, 0>>, entry |-> 0, step |-> 0]

\* the per-call variables of a process in which get_store was never called
IdleCalls(v) == [c \in Calls |-> v]

FreshProcess ==
    /\ cls_store = None
    /\ pc = IdleCalls("idle")
    /\ path = IdleCalls("none")
    /\ db_version = IdleCalls(<<0, 0, 0>>)
    /\ ei = IdleCalls(0)
    /\ si = IdleCalls(0)
    /\ log = IdleCalls(<<>>)
    /\ ret = IdleCalls(None)
    /\ hdr0 = IdleCalls(0)
    /\ prevFail = IdleCalls(NoFail)
    /\ firstDone = None

\* Either there is no database file yet, or the file is one that an earlier
\* process bootstrapped under some application version and filled with rows.
Init ==
    /\ current \in AppVersions
    /\ FreshProcess
    /\ completed = {}
    /\ lastFail = NoFail
    /\ foreign_keys = FALSE
    /\ res = NoRes
    /\ \/ /\ db_exists = FALSE
          /\ has_schema = FALSE
          /\ user_version = 0
          /\ chat = {} /\ chat_seq = 0
          /\ message = {} /\ message_seq = 0
       \/ /\ db_exists = TRUE
          /\ has_schema = TRUE
          /\ user_version \in {semantic_version_to_int(v) : v \in AppVersions}
          /\ chat = {SampleChat} /\ chat_seq = 1
          /\ message = {SampleMessage} /\ message_seq = 1

\* ------------------------------------------------------------- get_store
\* the guard without its ceiling current_version >= version
Eligible_NoCeiling(cur, version, dbv) == VerGT(version, dbv)

\* the guard with version >= db_version in place of version > db_version
Eligible_Inclusive(cur, version, dbv) ==
    VerGE(cur, version) /\ VerGE(version, dbv)

\* lines 64-66: the guard of the upgrade loop
Eligible(cur, version, dbv) == VerGE(cur, version) /\ VerGT(version, dbv)

\* the loop of line 63 skips, without awaiting, every entry failing the
\* guard: the next entry at or after i whose steps will be awaited
RECURSIVE NextEntry(_, _, _)
NextEntry(i, cur, dbv) ==
    IF i > NumUpgrades THEN NumUpgrades + 1
    ELSE IF Eligible(cur, upgrades[i].version, dbv) /\ upgrades[i].steps > 0
         THEN i
         ELSE NextEntry(i + 1, cur, dbv)

\* lines 24-31: the cache test, Store(), mkdir and the existence test run
\* without an await in between.  Calls are numbered in the order in which
\* they are made.
GetStoreBegin(c) ==
    /\ pc[c] = "idle"
    /\ \A d \in Calls : d < c => pc[d] # "idle"
    /\ hdr0' = [hdr0 EXCEPT ![c] = user_version]
    /\ prevFail' = [prevFail EXCEPT ![c] = lastFail]
    /\ lastFail' = NoFail
    /\ IF cls_store # None
       THEN /\ path' = [path EXCEPT ![c] = "cached"]
            /\ ret' = [ret EXCEPT ![c] = cls_store]
            /\ pc' = [pc EXCEPT ![c] = "done"]
       ELSE IF ~db_exists
       THEN /\ path' = [path EXCEPT ![c] = "bootstrap"]
            /\ pc' = [pc EXCEPT ![c] = "boot_connect"]
            /\ ret' = ret
       ELSE /\ path' = [path EXCEPT ![c] = "upgrade"]
            /\ pc' = [pc EXCEPT ![c] = "up_read"]
            /\ ret' = ret
    /\ UNCHANGED <<current, cls_store, db_version, ei, si, log, firstDone,
                   dbvars, completed, crudvars>>

\* line 33: aiosqlite.connect creates the database file
BootConnect(c) ==
    /\ pc[c] = "boot_connect"
    /\ db_exists' = TRUE
    /\ pc' = [pc EXCEPT ![c] = "boot_script"]
    /\ UNCHANGED <<current, cls_store, path, db_version, ei, si, log, ret,
                   hdr0, prevFail, firstDone, has_schema, user_version,
                   chat, message, completed, lastFail, crudvars>>

\* a bootstrap that creates the tables and forgets line 58
BootScript_NoStamp(c) ==
    /\ pc[c] = "boot_script"
    /\ has_schema' = TRUE
    /\ pc' = [pc EXCEPT ![c] = "finish"]
    /\ UNCHANGED <<current, cls_store, path, db_version, ei, si, log, ret,
                   hdr0, prevFail, firstDone, db_exists, user_version,
                   chat, message, completed, lastFail, crudvars>>

\* lines 34-57: CREATE TABLE IF NOT EXISTS chat, message
BootScript(c) ==
    /\ pc[c] = "boot_script"
    /\ has_schema' = TRUE
    /\ pc' = [pc EXCEPT ![c] = "stamp"]
    /\ UNCHANGED <<current, cls_store, path, db_version, ei, si, log, ret,
                   hdr0, prevFail, firstDone, db_exists, user_version,
                   chat, message, completed, lastFail, crudvars>>

\* lines 73-77, called at line 62
get_user_version(c) ==
    /\ pc[c] = "up_read"
    /\ LET dbv == int_to_semantic_version(user_version) IN
         /\ db_version' = [db_version EXCEPT ![c] = dbv]
         /\ ei' = [ei EXCEPT ![c] = NextEntry(1, current, dbv)]
         /\ si' = [si EXCEPT ![c] = 1]
         /\ pc' = [pc EXCEPT ![c] =
                IF NextEntry(1, current, dbv) > NumUpgrades
                THEN "stamp" ELSE "up_walk"]
    /\ UNCHANGED <<current, cls_store, path, log, ret, hdr0, prevFail,
                   firstDone, dbvars, completed, lastFail, crudvars>>

\* an upgrade loop that stamps the entry's version as soon as one of its
\* steps has returned
RunStep_StampsEntry(c) ==
    /\ pc[c] = "up_walk"
    /\ log' = [log EXCEPT ![c] = Append(@, <<ei[c], si[c]>>)]
    /\ user_version' = semantic_version_to_int(upgrades[ei[c]].version)
    /\ IF si[c] < upgrades[ei[c]].steps
       THEN /\ si' = [si EXCEPT ![c] = @ + 1]
            /\ UNCHANGED <<ei, pc>>
       ELSE LET n == NextEntry(ei[c] + 1, current, db_version[c]) IN
            /\ ei' = [ei EXCEPT ![c] = n]
            /\ si' = [si EXCEPT ![c] = 1]
            /\ pc' = [pc EXCEPT ![c] =
                   IF n > NumUpgrades THEN "stamp" ELSE "up_walk"]
    /\ UNCHANGED <<current, cls_store, path, db_version, ret, hdr0,
                   prevFail, firstDone, db_exists, has_schema, chat, message,
                   completed, lastFail, crudvars>>

\* line 68: await step(self.db_path) returns
RunStep(c) ==
    /\ pc[c] = "up_walk"
    /\ log' = [log EXCEPT ![c] = Append(@, <<ei[c], si[c]>>)]
    /\ IF si[c] < upgrades[ei[c]].steps
       THEN /\ si' = [si EXCEPT ![c] = @ + 1]
            /\ UNCHANGED <<ei, pc>>
       ELSE LET n == NextEntry(ei[c] + 1, current, db_version[c]) IN
            /\ ei' = [ei EXCEPT ![c] = n]
            /\ si' = [si EXCEPT ![c] = 1]
            /\ pc' = [pc EXCEPT ![c] =
                   IF n > NumUpgrades THEN "stamp" ELSE "up_walk"]
    /\ UNCHANGED <<current, cls_store, path, db_version, ret, hdr0,
                   prevFail, firstDone, dbvars, completed, lastFail, crudvars>>

\* a failure path that stamps the header on its way out (line 69 in a
\* finally clause)
StepRaises_Stamps(c) ==
    /\ pc[c] = "up_walk"
    /\ pc' = [pc EXCEPT ![c] = "failed"]
    /\ user_version' = semantic_version_to_int(current)
    /\ lastFail' = [cur |-> current, dbv |-> db_version[c],
                    entry |-> ei[c], step |-> si[c]]
    /\ UNCHANGED <<current, cls_store, path, db_version, ei, si, log, ret,
                   hdr0, prevFail, firstDone, db_exists, has_schema, chat,
                   message, completed, crudvars>>

\* line 68: await step(self.db_path) raises; the exception leaves get_store
StepRaises(c) ==
    /\ pc[c] = "up_walk"
    /\ pc' = [pc EXCEPT ![c] = "failed"]
    /\ lastFail' = [cur |-> current, dbv |-> db_version[c],
                    entry |-> ei[c], step |-> si[c]]
    /\ UNCHANGED <<current, cls_store, path, db_version, ei, si, log, ret,
                   hdr0, prevFail, firstDone, dbvars, completed, crudvars>>

\* a stamp that is skipped when the upgrade loop ran nothing
set_user_version_IfMigrated(c) ==
    /\ pc[c] = "stamp"
    /\ user_version' = IF path[c] = "upgrade" /\ log[c] = <<>>
                       THEN user_version
                       ELSE semantic_version_to_int(current)
    /\ pc' = [pc EXCEPT ![c] = "finish"]
    /\ UNCHANGED <<current, cls_store, path, db_version, ei, si, log, ret,
                   hdr0, prevFail, firstDone, db_exists, has_schema,
                   chat, message, completed, lastFail, crudvars>>

\* lines 79-83, called at line 58 and at line 69
set_user_version(c) ==
    /\ pc[c] = "stamp"
    /\ user_version' = semantic_version_to_int(current)
    /\ pc' = [pc EXCEPT ![c] = "finish"]
    /\ UNCHANGED <<current, cls_store, path, db_version, ei, si, log, ret,
                   hdr0, prevFail, firstDone, db_exists, has_schema,
                   chat, message, completed, lastFail, crudvars>>

\* a return that forgets line 70
GetStoreReturn_NoCache(c) ==
    /\ pc[c] = "finish"
    /\ cls_store' = cls_store
    /\ ret' = [ret EXCEPT ![c] = c]
    /\ pc' = [pc EXCEPT ![c] = "done"]
    /\ firstDone' = IF firstDone = None THEN c ELSE firstDone
    /\ completed' = completed
    /\ UNCHANGED <<current, path, db_version, ei, si, log, hdr0, prevFail,
                   dbvars, lastFail, crudvars>>

\* lines 70-71, after the connections have been closed
GetStoreReturn(c) ==
    /\ pc[c] = "finish"
    /\ cls_store' = c
    /\ ret' = [ret EXCEPT ![c] = c]
    /\ pc' = [pc EXCEPT ![c] = "done"]
    /\ firstDone' = IF firstDone = None THEN c ELSE firstDone
    /\ completed' = completed \cup
           {e \in 1..NumUpgrades :
               \A s \in 1..upgrades[e].steps :
                   \E k \in 1..Len(log[c]) : log[c][k] = <<e, s>>}
    /\ UNCHANGED <<current, path, db_version, ei, si, log, hdr0, prevFail,
                   dbvars, lastFail, crudvars>>

\* The process ends (normally or killed, whatever its calls are doing) and
\* another one starts on the same database file, under any application
\* version.
Restart ==
    /\ current' \in AppVersions
    /\ cls_store' = None
    /\ pc' = IdleCalls("idle")
    /\ path' = IdleCalls("none")
    /\ db_version' = IdleCalls(<<0, 0, 0>>)
    /\ ei' = IdleCalls(0)
    /\ si' = IdleCalls(0)
    /\ log' = IdleCalls(<<>>)
    /\ ret' = IdleCalls(None)
    /\ hdr0' = IdleCalls(0)
    /\ prevFail' = IdleCalls(NoFail)
    /\ firstDone' = None
    /\ UNCHANGED <<dbvars, completed, lastFail, crudvars>>

InFlight(c) == pc[c] \notin {"idle", "done", "failed"}

Next ==
    \/ \E c \in Calls : GetStoreBegin(c)
    \/ \E c \in Calls : BootConnect(c)
    \/ \E c \in Calls : BootScript(c)
    \/ \E c \in Calls : get_user_version(c)
    \/ \E c \in Calls : RunStep(c)
    \/ \E c \in Calls : StepRaises(c)
    \/ \E c \in Calls : set_user_version(c)
    \/ \E c \in Calls : GetStoreReturn(c)
    \/ Restart

Spec == Init /\ [][Next]_vars

\* Opens that do not overlap: a call begins only when no other call is
\* between its first and its last await.
BeginAlone(c) ==
    /\ \A d \in Calls : ~InFlight(d)
    /\ GetStoreBegin(c)

NextSeq ==
    \/ \E c \in Calls : BeginAlone(c)
    \/ \E c \in Calls : BootConnect(c)
    \/ \E c \in Calls : BootScript(c)
    \/ \E c \in Calls : get_user_version(c)
    \/ \E c \in Calls : RunStep(c)
    \/ \E c \in Calls : StepRaises(c)
    \/ \E c \in Calls : set_user_version(c)
    \/ \E c \in Calls : GetStoreReturn(c)
    \/ Restart

SpecSeq == Init /\ [][NextSeq]_vars

\* ------------------------------------------------------------------ CRUD
\* Each operation opens its own connection, runs one statement and commits.
\* The connections never issue PRAGMA foreign_keys = ON, so the FOREIGN KEY
\* clause of table message is enforced only by an SQLite library built to
\* enforce it by default; foreign_keys stands for that build setting.
lifevars == <<procvars, db_exists, has_schema, user_version, completed,
              lastFail, foreign_keys>>

\* a Store object has been handed out and its tables exist
StoreOpen == has_schema /\ \E c \in Calls : ret[c] # None

Max(a, b) == IF a >= b THEN a ELSE b

ChatIdsInUse == {r.id : r \in chat}
MessageIdsInUse == {r.id : r \in message}

\* a row that stores the parameters text in the tools column as well
chat_row_ToolsFromParameters(id, a) ==
    [id |-> id, name |-> a.name, model |-> a.model, system |-> a.system,
     format |-> a.format, parameters |-> json_dumps(a.parameters),
     keep_alive |-> a.keep_alive, tools |-> json_dumps(a.parameters)]

\* INTEGER PRIMARY KEY AUTOINCREMENT: NULL takes the id after the largest one
\* the table has ever held
chat_row(id, a) ==
    [id |-> id, name |-> a.name, model |-> a.model, system |-> a.system,
     format |-> a.format, parameters |-> json_dumps(a.parameters),
     keep_alive |-> a.keep_alive, tools |-> json_dumps(a.tools)]

\* lines 85-115; id = None is NULL.  REPLACE deletes the row that holds the
\* id before inserting, and with foreign keys enforced that delete cascades.
save_chat(id, a) ==
    /\ StoreOpen
    /\ LET new == IF id = None THEN chat_seq + 1 ELSE id IN
         /\ new <= MaxChatId
         /\ chat' = {r \in chat : r.id # new} \cup {chat_row(new, a)}
         /\ chat_seq' = Max(chat_seq, new)
         /\ message' = IF foreign_keys /\ new \in ChatIdsInUse
                       THEN {m \in message : m.chat_id # new}
                       ELSE message
         /\ res' = [op |-> "save_chat", id |-> new, err |-> FALSE,
                   arg |-> {a}, val |-> {}]
    /\ UNCHANGED <<lifevars, message_seq>>

\* lines 117-122
rename_chat(id, name) ==
    /\ StoreOpen
    /\ chat' = {IF r.id = id THEN [r EXCEPT !.name = name] ELSE r : r \in chat}
    /\ res' = [op |-> "rename_chat", id |-> id, err |-> FALSE,
               arg |-> {}, val |-> {}]
    /\ UNCHANGED <<lifevars, message, chat_seq, message_seq>>

\* an UPDATE that also writes a model column
edit_chat_SetsModel(id, a) ==
    /\ StoreOpen
    /\ chat' = {IF r.id = id
                THEN [r EXCEPT !.name = a.name, !.model = a.model,
                               !.system = a.system, !.format = a.format,
                               !.parameters = json_dumps(a.parameters),
                               !.keep_alive = a.keep_alive,
                               !.tools = json_dumps(a.tools)]
                ELSE r : r \in chat}
    /\ res' = [op |-> "edit_chat", id |-> id, err |-> FALSE,
               arg |-> {}, val |-> {}]
    /\ UNCHANGED <<lifevars, message, chat_seq, message_seq>>

\* lines 124-156
edit_chat(id, a) ==
    /\ StoreOpen
    /\ chat' = {IF r.id = id
                THEN [r EXCEPT !.name = a.name, !.system = a.system,
                               !.format = a.format,
                               !.parameters = json_dumps(a.parameters),
                               !.keep_alive = a.keep_alive,
                               !.tools = json_dumps(a.tools)]
                ELSE r : r \in chat}
    /\ res' = [op |-> "edit_chat", id |-> id, err |-> FALSE,
               arg |-> {}, val |-> {}]
    /\ UNCHANGED <<lifevars, message, chat_seq, message_seq>>

\* lines 184-213: the row with the id, its two JSON columns parsed, or None
\* ({}) when there is none.  res.arg keeps the arguments of the save_chat of
\* the same id when that was the call just before.
get_chat(id) ==
    /\ StoreOpen
    /\ res' = [op |-> "get_chat", id |-> id, err |-> FALSE,
               arg |-> IF res.op = "save_chat" /\ res.id = id
                       THEN res.arg ELSE {},
               val |-> {[id |-> r.id, name |-> r.name, model |-> r.model,
                         system |-> r.system, format |-> r.format,
                         parameters |-> json_loads(r.parameters),
                         keep_alive |-> r.keep_alive,
                         tools |-> json_loads(r.tools)] :
                        r \in {x \in chat : x.id = id}}]
    /\ UNCHANGED <<lifevars, chat, message, chat_seq, message_seq>>

\* lines 215-218; ON DELETE CASCADE acts only with foreign keys enforced
delete_chat(id) ==
    /\ StoreOpen
    /\ chat' = {r \in chat : r.id # id}
    /\ message' = IF foreign_keys
                  THEN {m \in message : m.chat_id # id}
                  ELSE message
    /\ res' = [op |-> "delete_chat", id |-> id, err |-> FALSE,
               arg |-> {}, val |-> {}]
    /\ UNCHANGED <<lifevars, chat_seq, message_seq>>

\* lines 220-233; with foreign keys enforced a chat_id without a chat row
\* raises IntegrityError and the statement changes nothing
save_message(id, chat_id, a) ==
    /\ StoreOpen
    /\ LET new == IF id = None THEN message_seq + 1 ELSE id IN
         /\ new <= MaxMessageId
         /\ IF foreign_keys /\ chat_id \notin ChatIdsInUse
            THEN /\ res' = [op |-> "save_message", id |-> 0, err |-> TRUE,
                            arg |-> {}, val |-> {}]
                 /\ UNCHANGED <<message, message_seq>>
            ELSE /\ message' = {m \in message : m.id # new} \cup
                        {[id |-> new, chat_id |-> chat_id,
                          author |-> a.author, text |-> a.text]}
                 /\ message_seq' = Max(message_seq, new)
                 /\ res' = [op |-> "save_message", id |-> new, err |-> FALSE,
                            arg |-> {}, val |-> {}]
    /\ UNCHANGED <<lifevars, chat, chat_seq>>

\* A process that has just bootstrapped its database: call 1 has returned
\* the Store object.
InitCrud ==
    /\ current = <<1, MaxMinor, 0>>
    /\ cls_store = 1
    /\ pc = [IdleCalls("idle") EXCEPT ![1] = "done"]
    /\ path = [IdleCalls("none") EXCEPT ![1] = "bootstrap"]
    /\ db_version = IdleCalls(<<0, 0, 0>>)
    /\ ei = IdleCalls(0)
    /\ si = IdleCalls(0)
    /\ log = IdleCalls(<<>>)
    /\ ret = [IdleCalls(None) EXCEPT ![1] = 1]
    /\ hdr0 = IdleCalls(0)
    /\ prevFail = IdleCalls(NoFail)
    /\ firstDone = 1
    /\ completed = {}
    /\ lastFail = NoFail
    /\ db_exists = TRUE
    /\ has_schema = TRUE
    /\ user_version = semantic_version_to_int(current)
    /\ chat = {} /\ chat_seq = 0
    /\ message = {} /\ message_seq = 0
    /\ foreign_keys \in BOOLEAN
    /\ res = NoRes

NextCrud ==
    \/ \E id \in ChatIds \cup {None}, a \in ChatArgs : save_chat(id, a)
    \/ \E id \in ChatIds, a \in ChatArgs : rename_chat(id, a.name)
    \/ \E id \in ChatIds, a \in ChatArgs : edit_chat(id, a)
    \/ \E id \in ChatIds : get_chat(id)
    \/ \E id \in ChatIds : delete_chat(id)
    \/ \E id \in MessageIds \cup {None}, chat_id \in ChatIds,
          a \in MessageArgs : save_message(id, chat_id, a)

SpecCrud == InitCrud /\ [][NextCrud]_vars

\* ----------------------------------------------------------- header codec
\* set_user_version and get_user_version called on their own, with versions
\* whose components lie at both ends of the range 0..Base-1.
CodecComponents == (0..CodecSpread) \cup ((Base - 1 - CodecSpread)..(Base - 1))

CodecVersions == CodecComponents \X CodecComponents \X CodecComponents

\* lines 79-83 with any version; res.arg keeps the version last written
StampHeader(v) ==
    /\ db_exists
    /\ user_version' = semantic_version_to_int(v)
    /\ res' = [op |-> "set_user_version", id |-> 0, err |-> FALSE,
               arg |-> {v}, val |-> {}]
    /\ UNCHANGED <<procvars, db_exists, has_schema, chat, message, chat_seq,
                   message_seq, foreign_keys, completed, lastFail>>

\* lines 73-77
ReadHeader ==
    /\ db_exists
    /\ res' = [op |-> "get_user_version", id |-> 0, err |-> FALSE,
               arg |-> res.arg,
               val |-> {int_to_semantic_version(user_version)}]
    /\ UNCHANGED <<procvars, dbvars, chat_seq, message_seq, foreign_keys,
                   completed, lastFail>>

\* A database file that exists and whose header was never written.
InitCodec ==
    /\ current \in AppVersions
    /\ FreshProcess
    /\ completed = {}
    /\ lastFail = NoFail
    /\ foreign_keys = FALSE
    /\ res = NoRes
    /\ db_exists = TRUE
    /\ has_schema = TRUE
    /\ user_version = 0
    /\ chat = {} /\ chat_seq = 0
    /\ message = {} /\ message_seq = 0

NextCodec ==
    \/ \E v \in CodecVersions : StampHeader(v)
    \/ ReadHeader

SpecCodec == InitCodec /\ [][NextCodec]_vars

\* ------------------------------------------------------------ properties
IsPrefix(s, t) == Len(s) <= Len(t) /\ \A k \in 1..Len(s) : s[k] = t[k]

StepsOf(e) == [s \in 1..upgrades[e].steps |-> <<e, s>>]

Ran(c, e) ==
    \A s \in 1..upgrades[e].steps :
        \E k \in 1..Len(log[c]) : log[c][k] = <<e, s>>

LoopOver(c) == pc[c] \in {"stamp", "finish", "done"}

\* the actions the claim expects for an application at version cur opening a
\* database stamped dbv: entries i..NumUpgrades with cur >= version > dbv
RECURSIVE ExpectedFrom(_, _, _)
ExpectedFrom(i, cur, dbv) ==
    IF i > NumUpgrades THEN <<>>
    ELSE (IF VerGE(cur, upgrades[i].version) /\ VerGT(upgrades[i].version, dbv)
          THEN StepsOf(i) ELSE <<>>) \o ExpectedFrom(i + 1, cur, dbv)

\* C1: on the Upgrade path the upgrade actions a call runs are exactly the
\* steps of the registry entries with current_version >= version and
\* version > db_version, in declaration order and in step order: what has run
\* so far is always a prefix of that sequence, and once the loop is over it is
\* the whole sequence.
C1_UpgradeRunsEligibleInOrder ==
    \A c \in Calls :
        path[c] = "upgrade" /\ pc[c] # "up_read" =>
            /\ IsPrefix(log[c], ExpectedFrom(1, current, db_version[c]))
            /\ LoopOver(c) => log[c] = ExpectedFrom(1, current, db_version[c])

\* db 1.0.0 opened by 1.3.0: both entries ran, 1.1.0 before 1.3.0
C1_Witness ==
    \E c \in Calls :
        /\ pc[c] = "done" /\ path[c] = "upgrade"
        /\ db_version[c] = <<1, 0, 0>>
        /\ log[c] = <<<<1, 1>>, <<1, 2>>, <<2, 1>>>>

\* C2: when an upgrade action raises in an open that no other open overlaps,
\* the call has failed without a result, the header holds the value it had
\* when the open began, and Store._store is unset (until the next call
\* begins or the process ends).
C2_FailedOpenLeavesHeaderAndCache ==
    \A c \in Calls :
        pc[c] = "failed" /\ lastFail # NoFail =>
            /\ path[c] = "upgrade"
            /\ ret[c] = None
            /\ user_version = hdr0[c]
            /\ cls_store = None

\* an open that ran the first entry, failed in the second, on a stale header
C2_Witness ==
    \E c \in Calls :
        /\ pc[c] = "failed" /\ lastFail # NoFail
        /\ lastFail.entry = 2
        /\ log[c] = <<<<1, 1>>, <<1, 2>>>>
        /\ user_version # semantic_version_to_int(current)

\* C3: the call that directly follows a failed open, under the same
\* application version, takes the Upgrade path, reads the same db version,
\* and does not get past the entry E whose action raised without running all
\* of E's actions.
C3_FailedEntryIsRetried ==
    \A d \in Calls :
        prevFail[d] # NoFail /\ prevFail[d].cur = current =>
            /\ path[d] = "upgrade"
            /\ pc[d] # "up_read" =>
                 /\ db_version[d] = prevFail[d].dbv
                 /\ Eligible(current, upgrades[prevFail[d].entry].version,
                             db_version[d])
                 /\ ei[d] > prevFail[d].entry => Ran(d, prevFail[d].entry)
                 /\ LoopOver(d) => Ran(d, prevFail[d].entry)

\* the retry of an open that failed in the second entry ran both entries
C3_Witness ==
    \E d \in Calls :
        /\ prevFail[d] # NoFail /\ prevFail[d].cur = current
        /\ prevFail[d].entry = 2
        /\ pc[d] = "done"
        /\ log[d] = <<<<1, 1>>, <<1, 2>>, <<2, 1>>>>

\* C4: once a call has completed on the Upgrade path, the header is the
\* running application's version, whatever was applied.
C4_UpgradeStampsCurrent ==
    \A c \in Calls :
        pc[c] = "done" /\ path[c] = "upgrade" =>
            user_version = semantic_version_to_int(current)

\* skip-future: db 1.1.0 opened by 1.2.0, entry 1.3.0 registered, nothing ran
C4_Witness ==
    \E c \in Calls :
        /\ pc[c] = "done" /\ path[c] = "upgrade"
        /\ current = <<1, 2, 0>>
        /\ hdr0[c] = semantic_version_to_int(<<1, 1, 0>>)
        /\ log[c] = <<>>
        /\ user_version = semantic_version_to_int(<<1, 2, 0>>)

\* State part of C5: a call on the Bootstrap path runs no registry action,
\* and when it has completed the tables exist, are empty, and the header is
\* the running application's version.
C5_BootstrapState ==
    \A c \in Calls :
        path[c] = "bootstrap" =>
            /\ log[c] = <<>>
            /\ pc[c] = "done" =>
                 /\ db_exists /\ has_schema
                 /\ chat = {} /\ message = {}
                 /\ user_version = semantic_version_to_int(current)

\* Step part of C5: a call that finds no database file (and no cached Store)
\* takes the Bootstrap path.
C5_BootstrapChosen ==
    \A c \in Calls :
        pc[c] = "idle" /\ pc'[c] # "idle" /\ ~db_exists /\ cls_store = None =>
            path'[c] = "bootstrap"

\* C5: a call made when no database file exists takes the Bootstrap path,
\* runs no registry action, and leaves empty tables and the header at the
\* running application's version.
C5_Bootstrap == [](C5_BootstrapState) /\ [][C5_BootstrapChosen]_vars

C5_Witness ==
    \E c \in Calls :
        /\ pc[c] = "done" /\ path[c] = "bootstrap"
        /\ hdr0[c] = 0
        /\ user_version = semantic_version_to_int(<<1, 3, 0>>)

\* State part of C6: once a call has completed an open (opens not
\* overlapping), every call made afterwards has returned the same Store
\* object straight from the cache, taking neither the Bootstrap nor the
\* Upgrade path and running no action.
C6_LaterCallsCachedState ==
    \A c, d \in Calls :
        /\ pc[c] = "done" /\ path[c] # "cached"
        /\ d # c /\ pc[d] \notin {"idle", "failed"}
        => /\ pc[d] = "done" /\ path[d] = "cached"
           /\ ret[d] = ret[c]
           /\ log[d] = <<>>

\* Step part of C6: while a Store is cached nothing writes the database.
C6_CachedTouchesNothing ==
    cls_store # None /\ cls_store' # None =>
        /\ UNCHANGED dbvars
        /\ cls_store' = cls_store
        /\ log' = log

\* C6: after a completed open, later calls return the same cached Store and
\* perform no existence test, schema creation, upgrade action or header write.
C6_LaterCallsCached ==
    [](C6_LaterCallsCachedState) /\ [][C6_CachedTouchesNothing]_vars

C6_Witness ==
    \E c, d \in Calls :
        /\ pc[c] = "done" /\ path[c] = "upgrade"
        /\ pc[d] = "done" /\ path[d] = "cached"
        /\ ret[d] = c /\ ret[c] = c

\* C7 (as claimed): when every call of the process has finished, Store._store
\* holds the Store object of the first call that completed an open, and that
\* object is the one every call served from the cache has returned.
C7_FirstCompletedWins ==
    (firstDone # None /\ \A c \in Calls : ~InFlight(c)) =>
        /\ cls_store = firstDone
        /\ \A d \in Calls : path[d] = "cached" => ret[d] = firstDone

\* C8 (as claimed): across the calls of one process, none of which failed, no
\* upgrade action is run by two calls, and no call has returned a Store while
\* another call is still inside the upgrade loop.
C8_MigrationsRunOnce ==
    /\ (\A c \in Calls : pc[c] # "failed") =>
           \A c, d \in Calls :
               c # d => \A j \in 1..Len(log[c]), k \in 1..Len(log[d]) :
                            log[c][j] # log[d][k]
    /\ \A c, d \in Calls : ~(pc[c] = "done" /\ pc[d] = "up_walk")

\* State part of C9: a call that takes the Upgrade path on a database whose
\* header already is the application version runs no upgrade action and
\* leaves the header as it was.
C9_UpToDateState ==
    \A c \in Calls :
        path[c] = "upgrade" /\ hdr0[c] = semantic_version_to_int(current) =>
            /\ log[c] = <<>>
            /\ pc[c] # "up_walk" /\ pc[c] # "failed"
            /\ user_version = hdr0[c]

\* Step part of C9: no step of such a call changes a chat row, a message
\* row, the header or the schema.
C9_UpToDateFrame ==
    \A c \in Calls :
        /\ path'[c] = "upgrade"
        /\ hdr0'[c] = semantic_version_to_int(current)
        /\ pc'[c] # pc[c]
        => /\ chat' = chat /\ message' = message
           /\ user_version' = user_version
           /\ has_schema' = has_schema

\* C9: opening an up-to-date database runs no upgrade action and leaves the
\* rows and the header unchanged.
C9_UpToDateOpen == [](C9_UpToDateState) /\ [][C9_UpToDateFrame]_vars

C9_Witness ==
    \E c \in Calls :
        /\ pc[c] = "done" /\ path[c] = "upgrade"
        /\ hdr0[c] = semantic_version_to_int(current)
        /\ current = <<1, 1, 0>>
        /\ chat = {SampleChat} /\ message = {SampleMessage}

\* C10 (as claimed): once delete_chat(id) has completed, table message holds
\* no row whose chat_id is id.
C10_DeleteChatRemovesMessages ==
    res.op = "delete_chat" => \A m \in message : m.chat_id # res.id

\* C11 (as claimed): a save_message call whose chat_id has no chat row is
\* rejected with an error and leaves table message unchanged.
C11_UnknownChatRejected ==
    [][\A id \in MessageIds \cup {None}, chat_id \in ChatIds,
          a \in MessageArgs :
            save_message(id, chat_id, a) /\ chat_id \notin ChatIdsInUse =>
                res'.err /\ message' = message]_vars

\* C12: get_user_version returns the version last given to set_user_version,
\* for every version with components in 0..999 (here: both ends of that
\* range), and "0.0.0" when the header was never set.
C12_HeaderRoundTrip ==
    res.op = "get_user_version" =>
        res.val = IF res.arg = {} THEN {<<0, 0, 0>>} ELSE res.arg

C12_Witness ==
    /\ res.op = "get_user_version"
    /\ res.arg = {<<Base - 1, 0, Base - 1>>}
    /\ res.val = {<<Base - 1, 0, Base - 1>>}

\* C13: the integer set_user_version writes for version a is greater than
\* the integer of every version b that a exceeds lexicographically.
C13_EncodingMonotonic ==
    res.op = "set_user_version" =>
        \A a \in res.arg, b \in CodecVersions :
            VerGT(a, b) => user_version > semantic_version_to_int(b)

\* 1.0.0 written: its integer exceeds that of 0.999.999
C13_Witness ==
    /\ res.op = "set_user_version"
    /\ res.arg = {<<1, 0, 0>>}
    /\ user_version > semantic_version_to_int(<<0, Base - 1, Base - 1>>)

\* the step keeps the set of chat ids, every message row, and every chat row
\* whose id is not id; no error is returned
OnlyChatTouched(id) ==
    /\ ~res'.err
    /\ message' = message
    /\ {r.id : r \in chat'} = ChatIdsInUse
    /\ Cardinality(chat') = Cardinality(chat)
    /\ \A r \in chat : r.id # id => r \in chat'

\* every step of rename_chat leaves res.op = "rename_chat"
C14_RenameFrame ==
    res'.op = "rename_chat" =>
    \A id \in ChatIds, a \in ChatArgs :
        rename_chat(id, a.name) =>
            /\ OnlyChatTouched(id)
            /\ \A r \in chat : r.id = id => [r EXCEPT !.name = a.name] \in chat'

\* every step of edit_chat leaves res.op = "edit_chat"
C14_EditFrame ==
    res'.op = "edit_chat" =>
    \A id \in ChatIds, a \in ChatArgs :
        edit_chat(id, a) =>
            /\ OnlyChatTouched(id)
            /\ \A r \in chat, r2 \in chat' :
                   r.id = id /\ r2.id = id =>
                       r2.model = r.model /\ r2.name = a.name

\* C14: rename_chat changes only the name of the chat row with the given id;
\* edit_chat changes neither its model nor its id; both leave every other
\* chat row and every message row as they were, and when no chat has the id
\* they create no row and raise no error.
C14_RenameEditFrame == [][C14_RenameFrame /\ C14_EditFrame]_vars

\* chat 1 was saved with model m1 and then edited with the other arguments,
\* next to a second chat and a message
C14_Witness ==
    /\ res.op = "edit_chat" /\ res.id = 1
    /\ \E r \in chat : r.id = 1 /\ r.model = "m1" /\ r.name = "b"
                       /\ r.format = "json"
    /\ \E r \in chat : r.id = 2
    /\ message # {}

\* what get_chat is to return for chat id saved with arguments a
Fetched(id, a) ==
    [id |-> id, name |-> a.name, model |-> a.model, system |-> a.system,
     format |-> a.format, parameters |-> a.parameters,
     keep_alive |-> a.keep_alive, tools |-> a.tools]

\* get_chat right after the save_chat of the same id
C15_FetchAfterSave ==
    res.op = "get_chat" /\ res.arg # {} =>
        res.val = {Fetched(res.id, a) : a \in res.arg}

\* save_chat without an id adds one row under an id no chat row had
C15_SaveNew ==
    res'.op = "save_chat" =>
    \A a \in ChatArgs :
        save_chat(None, a) =>
            /\ res'.id \notin ChatIdsInUse
            /\ Cardinality(chat') = Cardinality(chat) + 1
            /\ \E r \in chat' : r.id = res'.id

\* save_chat with the id of a chat row keeps the number of rows
C15_SaveExisting ==
    res'.op = "save_chat" =>
    \A id \in ChatIdsInUse, a \in ChatArgs :
        save_chat(id, a) =>
            /\ res'.id = id
            /\ Cardinality(chat') = Cardinality(chat)

\* C15: save_chat with id None creates a row under a new id and returns it;
\* with an existing id it replaces that row and keeps the row count; in both
\* cases get_chat of the returned id, called next, returns the saved name,
\* model, system, format, keep_alive, parameters and tools.
C15_SaveFetchRoundTrip ==
    [](C15_FetchAfterSave) /\ [][C15_SaveNew /\ C15_SaveExisting]_vars

\* chat 2 saved with a temperature and a tool next to chat 1, then fetched
C15_Witness ==
    /\ res.op = "get_chat" /\ res.id = 2 /\ res.arg # {}
    /\ Cardinality(chat) = 2
    /\ \E f \in res.val :
           /\ f.parameters = PyDict(<< <<"temperature", PyInt(7)>> >>)
           /\ f.tools = PyList(<<PyDict(<< <<"name", PyStr("date")>> >>)>>)

\* no step of an open applies an action of an entry that an earlier
\* successful open has completed
C16_NoReapply ==
    \A c \in Calls : RunStep(c) => ei[c] \notin completed

\* C16 (as claimed): over successive opens of one database file by
\* application versions that may differ (opens not overlapping), an entry
\* completed in an earlier successful open is never applied again and the
\* header never decreases.
C16_NoReapplyNoDecrease ==
    [][C16_NoReapply /\ user_version' >= user_version]_vars

\* C17 (as claimed): a call is on the Upgrade path only on a database that
\* has the base tables, whatever became of the Bootstrap that created the
\* file.
C17_UpgradeOnlyOnSchema ==
    \A c \in Calls : path[c] = "upgrade" => has_schema

====
